---- MODULE Spec2Model ----
(***************************************************************************)
(* Model of the bloodhound AVL tree sources.                               *)
(*                                                                         *)
(*   node layer  src/src/node.c        TreeNode_* and its static helpers   *)
(*   map layer   src/unnamed/part_000  AvlMap_* (insert, Morris clear)     *)
(*                                                                         *)
(* A client program drives exactly one of the two layers; which one is     *)
(* chosen in Init (variable unit).  Pointers are node identifiers, the     *)
(* null pointer is 0.                                                      *)
(***************************************************************************)
EXTENDS Integers, Sequences, FiniteSets, TLC

\* ---------------------------------------------------------------- bounds
\* Keys are the integers 1..MaxKey, compared numerically.
MaxKey == 4

NULL == 0
Keys == 1..MaxKey
\* Node layer: the client owns one TreeNode object per key (object k carries
\* key k) and one spare object, which it uses to offer a key a second time.
Spare == MaxKey + 1
NodeIds == Keys \cup {Spare}
\* Opaque value payloads handed to the library; NoValue is the null payload.
NoValue == "null"
Values == {"a", "b"}

\* Map layer: number of AvlNode addresses the allocator can hand out, and the
\* keys 1..MaxMapKey its client uses.
MaxAlloc == 3
MaxMapKey == 3
Addrs == 1..MaxAlloc
MapKeys == 1..MaxMapKey

VARIABLES
    unit,      \* which layer the client drives: "node" or "map"
    nodes,     \* node layer: the TreeNode objects, by identifier
    root,      \* node layer: the client's pointer to the parentless node
    heap,      \* map layer: the AvlNode storage, by address
    live,      \* map layer: addresses allocated and not yet freed
    map,       \* map layer: the AvlMap object (root, len)
    pc,        \* map layer: "idle", "clear" (inside AvlMap_clear's loop),
               \*            "destroyed" or "crashed"
    current,   \* map layer: AvlMap_clear's local variable current
    ub,        \* map layer: freed storage has been read, written or freed again
    deleted,   \* map layer: per address, deleter calls since it was allocated
    freed,     \* map layer: per address, free() calls since it was allocated
    owed,      \* map layer: values passed to AvlMap_insert, less values
               \*            returned by it or given to the deleter
    last       \* the most recent call and what it returned

nodeVars == <<nodes, root>>
mapVars == <<heap, live, map, pc, current, ub, deleted, freed, owed>>
vars == <<unit, nodes, root, heap, live, map, pc, current, ub, deleted, freed,
          owed, last>>

\* ------------------------------------------------------------ node layer
Max(a, b) == IF a > b THEN a ELSE b

\* The client's comparator: strcmp-like three-way comparison of integers.
comparator(a, b) == IF a < b THEN -1 ELSE IF a > b THEN 1 ELSE 0

BlankNode ==
    [left |-> NULL, right |-> NULL, parent |-> NULL, height |-> 0,
     key |-> 0, value |-> NoValue]

TreeNode_init(ns, self, key, value) ==
    [ns EXCEPT ![self] =
        [left |-> NULL, right |-> NULL, parent |-> NULL, height |-> 1,
         key |-> key, value |-> value]]

get_height(ns, self) == IF self = NULL THEN 0 ELSE ns[self].height

RECURSIVE update_height(_, _)
update_height(ns, self) ==
    LET left_height == get_height(ns, ns[self].left)
        right_height == get_height(ns, ns[self].right)
        ns1 == [ns EXCEPT ![self].height =
                    IF left_height > right_height
                    THEN left_height + 1 ELSE right_height + 1]
    IN  IF ns1[self].parent = NULL THEN ns1
        ELSE update_height(ns1, ns1[self].parent)

\* rotate_right that leaves the former parent's child slot pointing at self.
rotate_right_parent_slot_kept(ns, self) ==
    LET left == ns[self].left
        s1 == IF ns[left].right # NULL
              THEN [ns EXCEPT ![ns[left].right].parent = self] ELSE ns
        s2 == [s1 EXCEPT ![self].left = s1[left].right]
        s3 == [s2 EXCEPT ![left].right = self]
        s5 == [s3 EXCEPT ![left].parent = s3[self].parent]
        s6 == [s5 EXCEPT ![self].parent = left]
    IN  update_height(s6, self)

rotate_right(ns, self) ==
    LET left == ns[self].left
        s1 == IF ns[left].right # NULL
              THEN [ns EXCEPT ![ns[left].right].parent = self] ELSE ns
        s2 == [s1 EXCEPT ![self].left = s1[left].right]
        s3 == [s2 EXCEPT ![left].right = self]
        p  == s3[self].parent
        s4 == IF p # NULL
              THEN IF s3[p].left = self
                   THEN [s3 EXCEPT ![p].left = left]
                   ELSE [s3 EXCEPT ![p].right = left]
              ELSE s3
        s5 == [s4 EXCEPT ![left].parent = s4[self].parent]
        s6 == [s5 EXCEPT ![self].parent = left]
    IN  update_height(s6, self)

\* rotate_left that leaves the former parent's child slot pointing at self.
rotate_left_parent_slot_kept(ns, self) ==
    LET right == ns[self].right
        s1 == IF ns[right].left # NULL
              THEN [ns EXCEPT ![ns[right].left].parent = self] ELSE ns
        s2 == [s1 EXCEPT ![self].right = s1[right].left]
        s3 == [s2 EXCEPT ![right].left = self]
        s5 == [s3 EXCEPT ![right].parent = s3[self].parent]
        s6 == [s5 EXCEPT ![self].parent = right]
    IN  update_height(s6, self)

rotate_left(ns, self) ==
    LET right == ns[self].right
        s1 == IF ns[right].left # NULL
              THEN [ns EXCEPT ![ns[right].left].parent = self] ELSE ns
        s2 == [s1 EXCEPT ![self].right = s1[right].left]
        s3 == [s2 EXCEPT ![right].left = self]
        p  == s3[self].parent
        s4 == IF p # NULL
              THEN IF s3[p].left = self
                   THEN [s3 EXCEPT ![p].left = right]
                   ELSE [s3 EXCEPT ![p].right = right]
              ELSE s3
        s5 == [s4 EXCEPT ![right].parent = s4[self].parent]
        s6 == [s5 EXCEPT ![self].parent = right]
    IN  update_height(s6, self)

\* TreeNode_lower_bound without the fall-back to self when the search of the
\* left subtree fails.
RECURSIVE lower_bound_no_fallback(_, _, _)
lower_bound_no_fallback(ns, self, key) ==
    LET c == comparator(ns[self].key, key)
    IN  IF c < 0
        THEN IF ns[self].right = NULL
             THEN [ret |-> "TREE_NO_SUCH_KEY", bound |-> NULL]
             ELSE lower_bound_no_fallback(ns, ns[self].right, key)
        ELSE IF c > 0 /\ ns[self].left # NULL
        THEN lower_bound_no_fallback(ns, ns[self].left, key)
        ELSE [ret |-> "TREE_SUCCESS", bound |-> self]

\* Result of TreeNode_lower_bound: the error code and the value left in *bound
\* (bound is the caller's variable; NULL stands for "not written").
RECURSIVE TreeNode_lower_bound(_, _, _)
TreeNode_lower_bound(ns, self, key) ==
    LET compare == comparator(ns[self].key, key)
    IN  IF compare < 0
        THEN IF ns[self].right = NULL
             THEN [ret |-> "TREE_NO_SUCH_KEY", bound |-> NULL]
             ELSE TreeNode_lower_bound(ns, ns[self].right, key)
        ELSE IF compare > 0 /\ ns[self].left # NULL
        THEN LET sub == TreeNode_lower_bound(ns, ns[self].left, key)
             IN  IF sub.ret # "TREE_SUCCESS"
                 THEN [ret |-> "TREE_SUCCESS", bound |-> self]
                 ELSE [ret |-> "TREE_SUCCESS", bound |-> sub.bound]
        ELSE [ret |-> "TREE_SUCCESS", bound |-> self]

\* do_insert with the two sides exchanged: smaller keys attached right.
RECURSIVE do_insert_mirrored(_, _, _)
do_insert_mirrored(ns, self, to_insert) ==
    LET c == comparator(ns[self].key, ns[to_insert].key)
    IN  IF c = 0
        THEN [ret |-> "TREE_DUPLICATE_KEY", ns |-> ns]
        ELSE IF c < 0
        THEN IF ns[self].left # NULL
             THEN do_insert_mirrored(ns, ns[self].left, to_insert)
             ELSE [ret |-> "TREE_SUCCESS",
                   ns |-> [ns EXCEPT ![self].left = to_insert,
                                     ![to_insert].parent = self]]
        ELSE IF ns[self].right # NULL
             THEN do_insert_mirrored(ns, ns[self].right, to_insert)
             ELSE [ret |-> "TREE_SUCCESS",
                   ns |-> [ns EXCEPT ![self].right = to_insert,
                                     ![to_insert].parent = self]]

\* do_insert without the test for an equal key: an equal key descends right.
RECURSIVE do_insert_no_duplicate_test(_, _, _)
do_insert_no_duplicate_test(ns, self, to_insert) ==
    LET compare == comparator(ns[self].key, ns[to_insert].key)
    IN  IF compare > 0
        THEN IF ns[self].left # NULL
             THEN do_insert_no_duplicate_test(ns, ns[self].left, to_insert)
             ELSE [ret |-> "TREE_SUCCESS",
                   ns |-> [ns EXCEPT ![self].left = to_insert,
                                     ![to_insert].parent = self]]
        ELSE IF ns[self].right # NULL
             THEN do_insert_no_duplicate_test(ns, ns[self].right, to_insert)
             ELSE [ret |-> "TREE_SUCCESS",
                   ns |-> [ns EXCEPT ![self].right = to_insert,
                                     ![to_insert].parent = self]]

RECURSIVE do_insert(_, _, _)
do_insert(ns, self, to_insert) ==
    LET compare == comparator(ns[self].key, ns[to_insert].key)
    IN  IF compare = 0
        THEN [ret |-> "TREE_DUPLICATE_KEY", ns |-> ns]
        ELSE IF compare > 0
        THEN IF ns[self].left # NULL
             THEN do_insert(ns, ns[self].left, to_insert)
             ELSE [ret |-> "TREE_SUCCESS",
                   ns |-> [ns EXCEPT ![self].left = to_insert,
                                     ![to_insert].parent = self]]
        ELSE IF ns[self].right # NULL
             THEN do_insert(ns, ns[self].right, to_insert)
             ELSE [ret |-> "TREE_SUCCESS",
                   ns |-> [ns EXCEPT ![self].right = to_insert,
                                     ![to_insert].parent = self]]

get_balance_factor(ns, self) ==
    get_height(ns, ns[self].left) - get_height(ns, ns[self].right)

RECURSIVE rebalance(_, _)
rebalance(ns, self) ==
    LET balance_factor == get_balance_factor(ns, self)
        s1 == IF balance_factor > 1
              THEN LET a == IF ns[self].left # NULL
                               /\ get_balance_factor(ns, ns[self].left) < 0
                            THEN rotate_left(ns, ns[self].left) ELSE ns
                   IN  rotate_right(a, self)
              ELSE IF balance_factor < -1
              THEN LET a == IF ns[self].right # NULL
                               /\ get_balance_factor(ns, ns[self].right) > 0
                            THEN rotate_right(ns, ns[self].right) ELSE ns
                   IN  rotate_left(a, self)
              ELSE ns
    IN  IF s1[self].parent # NULL THEN rebalance(s1, s1[self].parent) ELSE s1

TreeNode_insert(ns, self, to_insert) ==
    LET r == do_insert(ns, self, to_insert)
    IN  IF r.ret # "TREE_SUCCESS" THEN r
        ELSE [ret |-> "TREE_SUCCESS",
              ns |-> rebalance(update_height(r.ns, to_insert), to_insert)]

\* remove_parent that empties the parent's slot but leaves self->parent set.
remove_parent_link_kept(ns, self) ==
    LET p == ns[self].parent
    IN  IF p # NULL /\ ns[p].left = self
        THEN [ns EXCEPT ![p].left = NULL]
        ELSE IF p # NULL THEN [ns EXCEPT ![p].right = NULL] ELSE ns

remove_parent(ns, self) ==
    LET p  == ns[self].parent
        s1 == IF p # NULL /\ ns[p].left = self
              THEN [ns EXCEPT ![p].left = NULL]
              ELSE IF p # NULL THEN [ns EXCEPT ![p].right = NULL] ELSE ns
    IN  [s1 EXCEPT ![self].parent = NULL]

\* replace_left that moves the child up without giving it its new parent.
replace_left_child_not_reparented(ns, self) ==
    LET p  == ns[self].parent
        s1 == IF p # NULL /\ ns[p].left = self
              THEN [ns EXCEPT ![p].left = ns[self].left]
              ELSE IF p # NULL THEN [ns EXCEPT ![p].right = ns[self].left]
              ELSE ns
    IN  [s1 EXCEPT ![self].left = NULL, ![self].parent = NULL]

replace_left(ns, self) ==
    LET p  == ns[self].parent
        s1 == IF p # NULL /\ ns[p].left = self
              THEN [ns EXCEPT ![p].left = ns[self].left]
              ELSE IF p # NULL THEN [ns EXCEPT ![p].right = ns[self].left]
              ELSE ns
        s2 == [s1 EXCEPT ![s1[self].left].parent = s1[self].parent]
    IN  [s2 EXCEPT ![self].left = NULL, ![self].parent = NULL]

replace_right(ns, self) ==
    LET p  == ns[self].parent
        s1 == IF p # NULL /\ ns[p].left = self
              THEN [ns EXCEPT ![p].left = ns[self].right]
              ELSE IF p # NULL THEN [ns EXCEPT ![p].right = ns[self].right]
              ELSE ns
        s2 == [s1 EXCEPT ![s1[self].right].parent = s1[self].parent]
    IN  [s2 EXCEPT ![self].right = NULL, ![self].parent = NULL]

RECURSIVE leftmost(_, _)
leftmost(ns, n) == IF ns[n].left = NULL THEN n ELSE leftmost(ns, ns[n].left)

inorder_successor(ns, self) == leftmost(ns, ns[self].right)

replace_successor(ns, self) == remove_parent(ns, inorder_successor(ns, self))

TreeNode_erase(ns, self) ==
    IF ns[self].left = NULL /\ ns[self].right = NULL
    THEN remove_parent(ns, self)
    ELSE IF ns[self].left # NULL /\ ns[self].right = NULL
    THEN replace_left(ns, self)
    ELSE IF ns[self].left = NULL /\ ns[self].right # NULL
    THEN replace_right(ns, self)
    ELSE replace_successor(ns, self)

\* ------------------------------------------------- reading a tree's shape
\* Nodes reachable from n over child links.
RECURSIVE Reach(_, _)
Reach(ns, n) ==
    IF n = NULL THEN {}
    ELSE {n} \cup Reach(ns, ns[n].left) \cup Reach(ns, ns[n].right)

\* In-order sequence of the nodes of the subtree at n.
RECURSIVE InOrder(_, _)
InOrder(ns, n) ==
    IF n = NULL THEN <<>>
    ELSE InOrder(ns, ns[n].left) \o <<n>> \o InOrder(ns, ns[n].right)

\* Height of the subtree at n as the links give it (not the cached field).
RECURSIVE ActualHeight(_, _)
ActualHeight(ns, n) ==
    IF n = NULL THEN 0
    ELSE 1 + Max(ActualHeight(ns, ns[n].left), ActualHeight(ns, ns[n].right))

KeysOf(ns, S) == {ns[n].key : n \in S}
TreeKeys == KeysOf(nodes, Reach(nodes, root))

RECURSIVE top(_, _)
top(ns, n) == IF ns[n].parent = NULL THEN n ELSE top(ns, ns[n].parent)

\* ------------------------------------------------- node-layer client calls
NoCall == [op |-> "none", key |-> 0, value |-> NoValue, ret |-> "none",
           bound |-> NULL, prev |-> NoValue]

\* The payload the client stores with key k.
ValueOf(k) == IF k % 2 = 1 THEN "a" ELSE "b"

InTree == Reach(nodes, root)

\* The object the client offers for key k: its own, or the spare one when
\* the object of k is already linked into the tree.
ObjectFor(k) == IF k \in InTree THEN Spare ELSE k

\* The client initialises the node a tree starts from.
NodeInit(k) ==
    /\ unit = "node"
    /\ root = NULL
    /\ nodes' = TreeNode_init(nodes, k, k, ValueOf(k))
    /\ root' = k
    /\ last' = [NoCall EXCEPT !.op = "TreeNode_init", !.key = k,
                              !.ret = "TREE_SUCCESS"]
    /\ UNCHANGED <<unit, mapVars>>

\* TreeNode_init of a free object, then TreeNode_insert on the current root;
\* the client then follows parent links to find the node that is root now.
NodeInsert(k) ==
    /\ unit = "node"
    /\ root # NULL
    /\ ObjectFor(k) \notin InTree
    /\ LET n == ObjectFor(k)
           r == TreeNode_insert(TreeNode_init(nodes, n, k, ValueOf(k)), root, n)
       IN  /\ nodes' = r.ns
           /\ root' = top(r.ns, root)
           /\ last' = [NoCall EXCEPT !.op = "TreeNode_insert", !.key = k,
                                     !.ret = r.ret]
    /\ UNCHANGED <<unit, mapVars>>

\* TreeNode_erase of a node of the tree.  The client's root pointer moves
\* only when the root itself was detached.
NodeErase(n) ==
    /\ unit = "node"
    /\ n \in InTree
    /\ LET ns1 == TreeNode_erase(nodes, n)
           l == nodes[n].left
           r == nodes[n].right
       IN  /\ nodes' = ns1
           /\ root' = IF n # root THEN root
                      ELSE IF l = NULL /\ r = NULL THEN NULL
                      ELSE IF r = NULL THEN l
                      ELSE IF l = NULL THEN r
                      ELSE root
           /\ last' = [NoCall EXCEPT !.op = "TreeNode_erase",
                                     !.key = nodes[n].key,
                                     !.ret = "TREE_SUCCESS"]
    /\ UNCHANGED <<unit, mapVars>>

QueryKeys == 0..(MaxKey + 1)

NodeLowerBound(k) ==
    /\ unit = "node"
    /\ root # NULL
    /\ LET r == TreeNode_lower_bound(nodes, root, k)
       IN  last' = [NoCall EXCEPT !.op = "TreeNode_lower_bound", !.key = k,
                                  !.ret = r.ret, !.bound = r.bound]
    /\ UNCHANGED <<unit, nodeVars, mapVars>>

NodeNext ==
    \/ \E k \in Keys : NodeInit(k)
    \/ \E k \in Keys : NodeInsert(k)
    \/ \E n \in NodeIds : NodeErase(n)
    \/ \E k \in QueryKeys : NodeLowerBound(k)

\* ------------------------------------------------------------- map layer
BlankAvl == [left |-> NULL, right |-> NULL, key |-> 0, value |-> NoValue,
             balance_factor |-> 0]

\* A comparator that never reports equality.
compare_never_equal(lhs, rhs) == IF lhs < rhs THEN -1 ELSE 1

\* The client's AvlComparator (compare_arg unused).
compare(lhs, rhs) == IF lhs < rhs THEN -1 ELSE IF lhs > rhs THEN 1 ELSE 0

AvlMap_init(m) == [m EXCEPT !.root = NULL, !.len = 0]

\* calloc'ed storage at address a, then key and value stored.
alloc_node(h, a, key, value) ==
    [h EXCEPT ![a] = [BlankAvl EXCEPT !.key = key, !.value = value]]

\* The loop of AvlMap_insert from node cur on: where the descent ends.
\*   found: cur compares equal;  otherwise the empty child slot reached.
RECURSIVE insert_descent(_, _, _)
insert_descent(h, cur, key) ==
    LET c == compare(key, h[cur].key)
    IN  IF c = 0 THEN [found |-> TRUE, at |-> cur, slot |-> "none"]
        ELSE IF c < 0
        THEN IF h[cur].left # NULL THEN insert_descent(h, h[cur].left, key)
             ELSE [found |-> FALSE, at |-> cur, slot |-> "left"]
        ELSE IF h[cur].right # NULL THEN insert_descent(h, h[cur].right, key)
             ELSE [found |-> FALSE, at |-> cur, slot |-> "right"]

FreeAddrs == Addrs \ live
\* The address calloc returns while no pointer to freed storage is in use:
\* which free address it is cannot be observed, so the lowest stands for all.
NewAddr == {a \in FreeAddrs : \A b \in FreeAddrs : a <= b}

\* The caller hands value v to the map.
Enter(o, v) == o + 1

\* The map hands v out: as AvlMap_insert's *previous_value_ptr or as the
\* deleter's argument (a NULL previous value hands nothing out).
Leave(o, v) == IF v = NoValue THEN o ELSE IF o > -1 THEN o - 1 ELSE -1

\* AvlMap_insert on a map whose root is absent or live.
AvlMapInsert(key, value) ==
    /\ unit = "map" /\ pc = "idle" /\ ~ub
    /\ map.root = NULL \/ map.root \in live
    /\ IF map.root = NULL
       THEN \E a \in NewAddr :
               /\ heap' = alloc_node(heap, a, key, value)
               /\ live' = live \cup {a}
               /\ deleted' = [deleted EXCEPT ![a] = 0]
               /\ freed' = [freed EXCEPT ![a] = 0]
               /\ map' = [map EXCEPT !.root = a, !.len = @ + 1]
               /\ owed' = Enter(owed, value)
               /\ last' = [NoCall EXCEPT !.op = "AvlMap_insert", !.key = key,
                                         !.value = value, !.prev = NoValue]
       ELSE LET d == insert_descent(heap, map.root, key)
            IN  IF d.found
                THEN /\ heap' = [heap EXCEPT ![d.at].value = value]
                     /\ last' = [NoCall EXCEPT !.op = "AvlMap_insert",
                                     !.key = key, !.value = value,
                                     !.prev = heap[d.at].value]
                     /\ owed' = Leave(Enter(owed, value), heap[d.at].value)
                     /\ UNCHANGED <<live, map, deleted, freed>>
                ELSE \E a \in NewAddr :
                     /\ heap' = IF d.slot = "left"
                                THEN [alloc_node(heap, a, key, value)
                                        EXCEPT ![d.at].left = a]
                                ELSE [alloc_node(heap, a, key, value)
                                        EXCEPT ![d.at].right = a]
                     /\ live' = live \cup {a}
                     /\ deleted' = [deleted EXCEPT ![a] = 0]
                     /\ freed' = [freed EXCEPT ![a] = 0]
                     /\ map' = [map EXCEPT !.len = @ + 1]
                     /\ owed' = Enter(owed, value)
                     /\ last' = [NoCall EXCEPT !.op = "AvlMap_insert",
                                     !.key = key, !.value = value,
                                     !.prev = NoValue]
    /\ UNCHANGED <<unit, nodeVars, pc, current, ub>>

\* What a read of pointer field f of the node at address a can yield: the
\* stored link while the node is live, anything once its storage is freed.
ReadPtr(h, a, f) == IF a \in live THEN {h[a][f]} ELSE {NULL} \cup Addrs

Bump(n) == IF n < 2 THEN n + 1 ELSE 2

\* AvlMap_insert on a map whose root points to freed storage (AvlMap_clear
\* leaves it so).  The descent reads freed nodes; it ends by "finding" the
\* key there and swapping an indeterminate value out, by reading an empty
\* child slot and hanging a new node from freed storage (which calloc may
\* have handed back as the new node itself), or by a crash.
AvlMapInsertDangling(key, value) ==
    /\ unit = "map" /\ pc = "idle" /\ ~ub
    /\ map.root # NULL /\ map.root \notin live
    /\ ub' = TRUE
    /\ \/ /\ \E old \in Values \cup {NoValue} :
                /\ last' = [NoCall EXCEPT !.op = "AvlMap_insert",
                                !.key = key, !.value = value, !.prev = old]
                /\ owed' = Leave(Enter(owed, value), old)
          /\ UNCHANGED <<heap, live, map, pc, deleted, freed>>
       \/ /\ \E a \in FreeAddrs, slot \in {"left", "right", "elsewhere"} :
                /\ heap' = IF slot = "left"
                           THEN [alloc_node(heap, a, key, value)
                                    EXCEPT ![a].left = a]
                           ELSE IF slot = "right"
                           THEN [alloc_node(heap, a, key, value)
                                    EXCEPT ![a].right = a]
                           ELSE alloc_node(heap, a, key, value)
                /\ live' = live \cup {a}
                /\ deleted' = [deleted EXCEPT ![a] = 0]
                /\ freed' = [freed EXCEPT ![a] = 0]
          /\ map' = [map EXCEPT !.len = @ + 1]
          /\ owed' = Enter(owed, value)
          /\ last' = [NoCall EXCEPT !.op = "AvlMap_insert", !.key = key,
                                    !.value = value, !.prev = NoValue]
          /\ UNCHANGED pc
       \/ /\ pc' = "crashed"
          /\ owed' = Enter(owed, value)
          /\ last' = [NoCall EXCEPT !.op = "AvlMap_insert", !.key = key,
                                    !.value = value]
          /\ UNCHANGED <<heap, live, map, deleted, freed>>
    /\ UNCHANGED <<unit, nodeVars, current>>

\* AvlMap_clear / AvlMap_destroy up to the loop: the early return on an
\* absent root, or current = self->root.
ClearBegin(op) ==
    /\ unit = "map" /\ pc = "idle" /\ ~ub
    /\ last' = [NoCall EXCEPT !.op = op]
    /\ IF map.root = NULL
       THEN /\ pc' = IF op = "AvlMap_destroy" THEN "destroyed" ELSE "idle"
            /\ UNCHANGED current
       ELSE /\ pc' = "clear"
            /\ current' = map.root
    /\ UNCHANGED <<unit, nodeVars, heap, live, map, ub, deleted, freed, owed>>

\* The inner while loop: from predecessor p, follow right links until one is
\* NULL or current.  Each outcome names the node the walk stops at, what its
\* right link read as, and whether freed storage was read on the way.
RECURSIVE predecessor_walk(_, _, _)
predecessor_walk(h, p, cur) ==
    IF p \in live
    THEN IF h[p].right # NULL /\ h[p].right # cur
         THEN predecessor_walk(h, h[p].right, cur)
         ELSE {[crash |-> FALSE, p |-> p, right |-> h[p].right, uaf |-> FALSE]}
    ELSE {[crash |-> FALSE, p |-> p, right |-> r, uaf |-> TRUE] :
              r \in {NULL, cur}}
         \cup {[crash |-> TRUE, p |-> p, right |-> NULL, uaf |-> TRUE]}

\* deleter(current->key, current->value); free(current).  The value read
\* from a node already freed is indeterminate.
release(cur) ==
    /\ \E v \in (IF cur \in live THEN {heap[cur].value}
                                 ELSE Values \cup {NoValue}) :
          owed' = Leave(owed, v)
    /\ deleted' = [deleted EXCEPT ![cur] = Bump(@)]
    /\ freed' = [freed EXCEPT ![cur] = Bump(@)]
    /\ live' = live \ {cur}

\* One iteration of the Morris loop of AvlMap_clear.
ClearStep ==
    /\ unit = "map" /\ pc = "clear" /\ current # NULL
    /\ \E l \in ReadPtr(heap, current, "left") :
         IF l = NULL
         THEN \E next \in ReadPtr(heap, current, "right") :
                 /\ release(current)
                 /\ heap' = [heap EXCEPT ![current] = BlankAvl]
                 /\ current' = next
                 /\ ub' = (ub \/ current \notin live)
                 /\ UNCHANGED pc
         ELSE \E o \in predecessor_walk(heap, l, current) :
                 IF o.crash
                 THEN /\ pc' = "crashed" /\ ub' = TRUE
                      /\ UNCHANGED <<heap, live, current, deleted, freed,
                                     owed>>
                 ELSE IF o.right = NULL
                 THEN /\ heap' = IF o.p \in live
                                 THEN [heap EXCEPT ![o.p].right = current]
                                 ELSE heap
                      /\ current' = l
                      /\ ub' = (ub \/ o.uaf \/ current \notin live)
                      /\ UNCHANGED <<pc, live, deleted, freed, owed>>
                 ELSE \E next \in ReadPtr(heap, current, "right") :
                      /\ release(current)
                      /\ heap' = IF o.p \in live \ {current}
                                 THEN [heap EXCEPT ![current] = BlankAvl,
                                                   ![o.p].right = NULL]
                                 ELSE [heap EXCEPT ![current] = BlankAvl]
                      /\ current' = next
                      /\ ub' = (ub \/ o.uaf \/ current \notin live)
                      /\ UNCHANGED pc
    /\ UNCHANGED <<unit, nodeVars, map, last>>

\* A step of the loop that touches freed storage may also end the process.
ClearCrash ==
    /\ unit = "map" /\ pc = "clear" /\ current # NULL
    /\ current \notin live
    /\ pc' = "crashed" /\ ub' = TRUE
    /\ UNCHANGED <<unit, nodeVars, heap, live, map, current, deleted, freed,
                   owed, last>>

\* The loop has ended: self->len = 0 and return.
ClearEnd ==
    /\ unit = "map" /\ pc = "clear" /\ current = NULL
    /\ map' = [map EXCEPT !.len = 0]
    /\ pc' = IF last.op = "AvlMap_destroy" THEN "destroyed" ELSE "idle"
    /\ UNCHANGED <<unit, nodeVars, heap, live, current, ub, deleted, freed,
                   owed, last>>

\* AvlMap_init on the storage of a destroyed map.
MapInit ==
    /\ unit = "map" /\ pc = "destroyed" /\ ~ub
    /\ map' = AvlMap_init(map)
    /\ pc' = "idle"
    /\ last' = [NoCall EXCEPT !.op = "AvlMap_init"]
    /\ UNCHANGED <<unit, nodeVars, heap, live, current, ub, deleted, freed,
                   owed>>

MapNext ==
    \/ \E k \in MapKeys, v \in Values : AvlMapInsert(k, v)
    \/ \E k \in MapKeys, v \in Values : AvlMapInsertDangling(k, v)
    \/ \E op \in {"AvlMap_clear", "AvlMap_destroy"} : ClearBegin(op)
    \/ ClearStep
    \/ ClearCrash
    \/ ClearEnd
    \/ MapInit

Init ==
    /\ unit \in {"node", "map"}
    /\ nodes = [n \in NodeIds |-> BlankNode]
    /\ root = NULL
    /\ heap = [a \in Addrs |-> BlankAvl]
    /\ live = {}
    /\ map = [root |-> NULL, len |-> 0]
    /\ pc = "idle"
    /\ current = NULL
    /\ ub = FALSE
    /\ deleted = [a \in Addrs |-> 0]
    /\ freed = [a \in Addrs |-> 0]
    /\ owed = 0
    /\ last = NoCall

Next == NodeNext \/ MapNext

Spec == Init /\ [][Next]_vars

\* ================================================================ claims
Abs(x) == IF x < 0 THEN -x ELSE x

\* Keys of the nodes of the sequence sq, in order.
KeySeq(ns, sq) == [i \in 1..Len(sq) |-> ns[sq[i]].key]
StrictlyAscending(ks) == \A i \in 1..(Len(ks) - 1) : ks[i] < ks[i + 1]

\* Map layer: the nodes reached from a over child links of live nodes
\* (seen guards against links that lead back).
RECURSIVE LiveReachFrom(_, _)
LiveReachFrom(a, seen) ==
    IF a = NULL \/ a \notin live \/ a \in seen THEN seen
    ELSE LiveReachFrom(heap[a].right,
                       LiveReachFrom(heap[a].left, seen \cup {a}))
MapNodes == LiveReachFrom(map.root, {})
StoredKeys == KeysOf(heap, MapNodes)
\* The map is between calls and no freed storage has been touched.
MapSettled == unit = "map" /\ pc \in {"idle", "destroyed"} /\ ~ub

\* C1: every node reachable from the root has left and right subtrees whose
\* actual heights differ by at most 1, after any inserts and erases.
C1_BalanceInvariant ==
    unit = "node" =>
        \A n \in InTree :
            Abs(ActualHeight(nodes, nodes[n].left)
                - ActualHeight(nodes, nodes[n].right)) <= 1

\* C2: every node reachable from the root has cached
\* height = 1 + max(height(left), height(right)), absent children counting 0.
C2_CachedHeight ==
    unit = "node" =>
        \A n \in InTree :
            nodes[n].height = 1 + Max(get_height(nodes, nodes[n].left),
                                      get_height(nodes, nodes[n].right))

\* C3: the in-order traversal of the tree yields strictly ascending keys
\* (so no two stored keys are equal), in the node layer after any inserts
\* and erases and in the map layer after any inserts.
C3_OrderInvariant ==
    /\ unit = "node" => StrictlyAscending(KeySeq(nodes, InOrder(nodes, root)))
    /\ (MapSettled /\ (map.root = NULL \/ map.root \in live)) =>
           StrictlyAscending(KeySeq(heap, InOrder(heap, map.root)))

\* C3 witness: a tree that still has three nodes or more, one of them with
\* two children, after a node was erased from it.
C3_Witness ==
    /\ unit = "node" /\ last.op = "TreeNode_erase"
    /\ Cardinality(InTree) >= 3
    /\ \E n \in InTree : nodes[n].left # NULL /\ nodes[n].right # NULL

\* C4: between calls, the map's len equals the number of live nodes
\* reachable from its root.
C4_CountInvariant ==
    (unit = "map" /\ pc \in {"idle", "destroyed"}) =>
        map.len = Cardinality(MapNodes)

\* C5: AvlMap_clear / AvlMap_destroy invokes the deleter exactly once per
\* stored pair and frees every node exactly once: no node is released
\* twice, and when the call is over none is left unreleased.
C5_ClearReleasesEachOnce ==
    unit = "map" =>
        /\ \A a \in Addrs : deleted[a] <= 1 /\ freed[a] <= 1
        /\ (last.op \in {"AvlMap_clear", "AvlMap_destroy"} /\ pc # "clear") =>
               /\ live = {}
               /\ \A a \in Addrs : deleted[a] = freed[a]

\* C6: after AvlMap_clear / AvlMap_destroy returns, the root is absent and
\* len is 0.
C6_ClearLeavesEmpty ==
    (unit = "map" /\ last.op \in {"AvlMap_clear", "AvlMap_destroy"}
        /\ pc \in {"idle", "destroyed"}) =>
        map.root = NULL /\ map.len = 0

\* The value the map stores for key k.
Lookup(h, S, k) == h[CHOOSE a \in S : h[a].key = k].value
Links(h) == [a \in Addrs |-> <<h[a].left, h[a].right, h[a].key>>]

\* C7: AvlMap_insert with a key equal to a stored key returns the value
\* stored for it before, maps the key to the new value afterwards, and
\* leaves the key set, the tree shape, len and the allocated nodes unchanged.
C7_Overwrite ==
    [][(MapSettled /\ pc = "idle" /\ last'.op = "AvlMap_insert"
          /\ last'.key \in StoredKeys) =>
            /\ last'.prev = Lookup(heap, MapNodes, last'.key)
            /\ Lookup(heap', MapNodes, last'.key) = last'.value
            /\ Links(heap') = Links(heap)
            /\ map' = map
            /\ live' = live]_vars

\* C7 witness: an insert returned a stored value and replaced it by another.
C7_Witness ==
    /\ MapSettled /\ last.op = "AvlMap_insert"
    /\ last.prev # NoValue /\ last.prev # last.value
    /\ last.key \in StoredKeys
    /\ Lookup(heap, MapNodes, last.key) = last.value
    /\ map.len >= 2

\* C8: on a non-empty tree in key order, TreeNode_lower_bound on the root
\* returns TREE_SUCCESS with the node of the smallest stored key >= k, and
\* TREE_NO_SUCH_KEY exactly when no stored key is >= k.
LowerBoundCorrect(k, r) ==
    LET ge == {n \in InTree : nodes[n].key >= k}
    IN  IF ge = {} THEN r.ret = "TREE_NO_SUCH_KEY"
        ELSE /\ r.ret = "TREE_SUCCESS"
             /\ r.bound \in ge
             /\ \A m \in ge : nodes[r.bound].key <= nodes[m].key
C8_LowerBound ==
    (unit = "node" /\ root # NULL
        /\ StrictlyAscending(KeySeq(nodes, InOrder(nodes, root)))) =>
        /\ \A k \in QueryKeys :
               LowerBoundCorrect(k, TreeNode_lower_bound(nodes, root, k))
        /\ last.op = "TreeNode_lower_bound" =>
               LowerBoundCorrect(last.key, last)

\* C8 witness: a query whose answer is a strictly greater key held below
\* the root, on a tree of three nodes or more.
C8_Witness ==
    /\ unit = "node" /\ last.op = "TreeNode_lower_bound"
    /\ last.ret = "TREE_SUCCESS" /\ last.bound # root
    /\ nodes[last.bound].key > last.key
    /\ Cardinality(InTree) >= 3

\* The node of the tree that holds key k.
Holder(k) == CHOOSE n \in InTree : nodes[n].key = k

\* C9: TreeNode_erase of a node n with two children leaves n's position
\* holding the key and value of n's in-order successor, splices the
\* successor's node out, and removes exactly n's original key.
C9_TwoChildErase ==
    [][(unit = "node" /\ last'.op = "TreeNode_erase"
          /\ nodes[Holder(last'.key)].left # NULL
          /\ nodes[Holder(last'.key)].right # NULL) =>
            LET n == Holder(last'.key)
                s == inorder_successor(nodes, n)
            IN  /\ nodes'[n].key = nodes[s].key
                /\ nodes'[n].value = nodes[s].value
                /\ s \notin Reach(nodes', root')
                /\ KeysOf(nodes', Reach(nodes', root'))
                     = TreeKeys \ {last'.key}]_vars

\* C10: every TreeNode_erase removes exactly the erased key from the keys
\* reachable from the root (so erasing all inserted keys empties the tree).
C10_EraseRoundTrip ==
    [][(unit = "node" /\ last'.op = "TreeNode_erase") =>
            KeysOf(nodes', Reach(nodes', root')) = TreeKeys \ {last'.key}]_vars

\* C11: AvlMap_insert rebalances, so that after any inserts every node of
\* the map's tree has subtrees whose heights differ by at most 1 (keys
\* inserted in ascending order do not form a chain).
C11_MapBalanced ==
    (MapSettled /\ map.root \in live) =>
        \A a \in MapNodes :
            Abs(ActualHeight(heap, heap[a].left)
                - ActualHeight(heap, heap[a].right)) <= 1

\* C12: TreeNode_insert of a node whose key the tree already holds returns
\* TREE_DUPLICATE_KEY and changes nothing: the root, and every link and
\* cached height of every other node, stay as they were, and to_insert stays
\* as TreeNode_init left it (no parent, no children).
C12_DuplicateInsert ==
    [][(unit = "node" /\ last'.op = "TreeNode_insert"
          /\ last'.key \in TreeKeys) =>
            LET to_insert == ObjectFor(last'.key)
                fresh == TreeNode_init(nodes, to_insert, last'.key,
                                       ValueOf(last'.key))
            IN  /\ last'.ret = "TREE_DUPLICATE_KEY"
                /\ root' = root
                /\ \A n \in NodeIds \ {to_insert} : nodes'[n] = nodes[n]
                /\ nodes'[to_insert] = fresh[to_insert]
                /\ nodes'[to_insert].parent = NULL
                /\ nodes'[to_insert].left = NULL
                /\ nodes'[to_insert].right = NULL]_vars

\* C12 witness: an insert was refused as a duplicate on a tree of three
\* nodes or more, the refused node carrying a key found below the root.
C12_Witness ==
    /\ unit = "node" /\ last.op = "TreeNode_insert"
    /\ last.ret = "TREE_DUPLICATE_KEY"
    /\ Cardinality(InTree) >= 3
    /\ ObjectFor(last.key) \notin InTree
    /\ nodes[ObjectFor(last.key)].key = last.key
    /\ last.key \in TreeKeys \ {nodes[root].key}

\* Nodes on the parent chain above n.
RECURSIVE Ancestors(_, _)
Ancestors(ns, n) ==
    IF ns[n].parent = NULL THEN {}
    ELSE {ns[n].parent} \cup Ancestors(ns, ns[n].parent)

\* The cached height of n agrees with the cached heights of its children.
HeightConsistent(ns, n) ==
    ns[n].height = 1 + Max(get_height(ns, ns[n].left),
                           get_height(ns, ns[n].right))

\* ns2 is ns after a rotation at n that made n's former child c the root of
\* the subtree: c took n's place under n's former parent, n hangs below c,
\* the keys of the whole tree read in order as before, and the cached
\* heights of n, c and every ancestor agree with their children.
Rotated(ns, n, c, ns2) ==
    LET p == ns[n].parent
    IN  /\ ns2[c].parent = p
        /\ ns2[n].parent = c
        /\ p # NULL => IF ns[p].left = n THEN ns2[p].left = c
                                         ELSE ns2[p].right = c
        /\ KeySeq(ns2, InOrder(ns2, top(ns2, c)))
             = KeySeq(ns, InOrder(ns, top(ns, n)))
        /\ \A m \in {n, c} \cup Ancestors(ns2, c) : HeightConsistent(ns2, m)

\* C13: rotate_right at any node with a left child makes that child (the
\* value returned) the root of the subtree, retargets the former parent's
\* child slot, keeps the in-order key sequence of the whole tree and leaves
\* the cached heights of n, the new subtree root and every ancestor
\* consistent; rotate_left at any node with a right child is the mirror
\* image (the right child rises).
C13_Rotation ==
    unit = "node" =>
        \A n \in InTree :
            /\ nodes[n].left # NULL =>
                  /\ Rotated(nodes, n, nodes[n].left, rotate_right(nodes, n))
                  /\ rotate_right(nodes, n)[nodes[n].left].right = n
            /\ nodes[n].right # NULL =>
                  /\ Rotated(nodes, n, nodes[n].right, rotate_left(nodes, n))
                  /\ rotate_left(nodes, n)[nodes[n].right].left = n

\* C13 witness: the node just inserted stands above two children, which
\* only a rotation at its parent (a node with a parent of its own) followed
\* by the opposite rotation at its grandparent brings about.
C13_Witness ==
    /\ unit = "node" /\ last.op = "TreeNode_insert"
    /\ last.ret = "TREE_SUCCESS"
    /\ nodes[Holder(last.key)].left # NULL
    /\ nodes[Holder(last.key)].right # NULL
    /\ \A m \in InTree : HeightConsistent(nodes, m)

\* The three links of node m.
LinksOf(ns, m) == <<ns[m].left, ns[m].right, ns[m].parent>>

\* C14: TreeNode_erase of a leaf n empties the slot of n's parent that held
\* n; of a node n with exactly one child c it puts c into that slot and
\* makes n's former parent the parent of c.  Either way n ends with no
\* parent and no children, and no other node's links change.
C14_SimpleErase ==
    [][(unit = "node" /\ last'.op = "TreeNode_erase"
          /\ (nodes[Holder(last'.key)].left = NULL
                \/ nodes[Holder(last'.key)].right = NULL)) =>
            LET n == Holder(last'.key)
                p == nodes[n].parent
                c == IF nodes[n].left # NULL THEN nodes[n].left
                                             ELSE nodes[n].right
            IN  /\ p # NULL =>
                      /\ nodes'[p].left
                           = (IF nodes[p].left = n THEN c ELSE nodes[p].left)
                      /\ nodes'[p].right
                           = (IF nodes[p].right = n THEN c ELSE nodes[p].right)
                      /\ nodes'[p].parent = nodes[p].parent
                /\ c # NULL =>
                      /\ nodes'[c].parent = p
                      /\ nodes'[c].left = nodes[c].left
                      /\ nodes'[c].right = nodes[c].right
                /\ LinksOf(nodes', n) = <<NULL, NULL, NULL>>
                /\ \A m \in NodeIds \ {n, p, c} :
                      LinksOf(nodes', m) = LinksOf(nodes, m)]_vars

\* C14 witness: the erased node lies detached outside a tree that keeps
\* three nodes, so it was spliced out from under a parent or above a child.
C14_Witness ==
    /\ unit = "node" /\ last.op = "TreeNode_erase"
    /\ last.key \notin TreeKeys
    /\ LinksOf(nodes, last.key) = <<NULL, NULL, NULL>>
    /\ Cardinality(InTree) = 3
    /\ \E m \in InTree : nodes[m].left = NULL /\ nodes[m].right # NULL

\* Following parent links from n arrives at the root within fuel steps.
RECURSIVE ReachesRoot(_, _)
ReachesRoot(n, fuel) ==
    IF n = root THEN TRUE
    ELSE IF fuel = 0 \/ nodes[n].parent = NULL THEN FALSE
    ELSE ReachesRoot(nodes[n].parent, fuel - 1)

\* C15: after any inserts and erases, every child c of a tree node p has
\* c.parent = p, the root is the one tree node without a parent, and the
\* parent chain of every tree node leads to the root without a cycle.
C15_ParentLinks ==
    (unit = "node" /\ root # NULL) =>
        /\ \A p \in InTree :
              \A c \in {nodes[p].left, nodes[p].right} \ {NULL} :
                  nodes[c].parent = p
        /\ {n \in InTree : nodes[n].parent = NULL} = {root}
        /\ \A n \in InTree : ReachesRoot(n, Cardinality(InTree))

\* C15 witness: after an erase that took a key out, the tree still has a
\* node two levels below the root.
C15_Witness ==
    /\ unit = "node" /\ last.op = "TreeNode_erase"
    /\ last.key \notin TreeKeys
    /\ \E n \in InTree :
          /\ nodes[n].parent # NULL
          /\ nodes[nodes[n].parent].parent # NULL

\* C16: TreeNode_insert of a node whose key the tree does not hold returns
\* TREE_SUCCESS, and the nodes reachable from the tree's root afterwards
\* are exactly the nodes reachable before plus the inserted node.
C16_InsertKeepsNodes ==
    [][(unit = "node" /\ last'.op = "TreeNode_insert"
          /\ last'.key \notin TreeKeys) =>
            /\ last'.ret = "TREE_SUCCESS"
            /\ Reach(nodes', root') = InTree \cup {ObjectFor(last'.key)}]_vars

\* C16 witness: a successful insert that filled the tree to four nodes, the
\* new node a leaf two levels below a root with two children.
C16_Witness ==
    /\ unit = "node" /\ last.op = "TreeNode_insert"
    /\ last.ret = "TREE_SUCCESS"
    /\ Cardinality(InTree) = 4
    /\ nodes[root].left # NULL /\ nodes[root].right # NULL
    /\ nodes[Holder(last.key)].parent \notin {NULL, root}

\* C17: while AvlMap_clear runs on a populated map, no field of a node is
\* read or written after that node's storage was freed.
C17_ClearMemorySafe ==
    (unit = "map" /\ last.op \in {"AvlMap_clear", "AvlMap_destroy"}
       /\ map.len > 0) => ~ub

\* C18: AvlMap_clear terminates: a clear that has entered its loop on a
\* populated map and has not returned yet can always take its next loop
\* iteration or leave the loop (current = NULL) and return.
C18_ClearTerminates ==
    (unit = "map" /\ last.op \in {"AvlMap_clear", "AvlMap_destroy"}
       /\ map.len > 0) => ENABLED (ClearStep \/ ClearEnd)

\* C19: every value passed to AvlMap_insert leaves the map exactly once,
\* as the previous value an overwriting insert returns or as the deleter's
\* argument in AvlMap_clear.  Between calls the map owes one value for each
\* node it stores; while a clear of a populated map runs no more values
\* have been handed out than were passed in; and once the clear is over, by
\* return or otherwise, the map owes none.
C19_ValueHandOff ==
    unit = "map" =>
        /\ (MapSettled /\ map.root \in live \cup {NULL}) =>
              owed = Cardinality(MapNodes)
        /\ (last.op \in {"AvlMap_clear", "AvlMap_destroy"} /\ map.len > 0) =>
              owed >= 0 /\ (pc # "clear" => owed = 0)
        /\ (last.op \in {"AvlMap_clear", "AvlMap_destroy"}
              /\ pc \in {"idle", "destroyed"}) => owed = 0

====
